---------------------------- MODULE Spec2Model ----------------------------
(***************************************************************************)
(* A model of the EME dish siting calculator: the Maidenhead grid decoder, *)
(* the request handler, the moonrise window scan, the per-region           *)
(* opportunity classification, the RF, wind and tree estimates with the    *)
(* recommendations drawn from them, and the deployment handler.            *)
(*                                                                         *)
(* Characters are their code points (ord), so that ord(c) - ord('A') and   *)
(* int(c) are computed as the code computes them.  Angles of the decoder   *)
(* are exact multiples of 1/5760 degree (the smallest step the decoder     *)
(* adds is 1/5760 of a degree of latitude), so latitude and longitude are  *)
(* held as integers in that unit; floating-point rounding is not modelled. *)
(* Instants are whole hours.                                               *)
(***************************************************************************)
EXTENDS Integers, Sequences, FiniteSets, TLC

\* ------------------------------------------------------------------ bounds

\* Longest grid code given to the decoder (the decoder reads 10 characters).
MaxGridLen == 10

\* Days scanned by one run (the handler asks for 90, the command line 365).
MaxDays == 3

\* ------------------------------------------------------- program constants

\* ord('A')
ord_A == 65

\* Units per degree: the decoder's smallest step is 1/5760 degree.
Scale == 5760

\* ------------------------------------------------------------- characters

Upper(c) == IF c >= 97 /\ c <= 122 THEN c - 32 ELSE c

\* str.upper() of a whole string
upper(s) == [i \in 1..Len(s) |-> Upper(s[i])]

isalpha(c) == (c >= 65 /\ c <= 90) \/ (c >= 97 /\ c <= 122)

\* str.isdecimal: the ASCII digits and, of the other decimal digits of
\* Unicode, the Arabic-Indic ones (U+0660..U+0669)
isdecimal(c) == (c >= 48 /\ c <= 57) \/ (c >= 1632 /\ c <= 1641)

\* str.isdigit: the decimal digits and the digits that are not decimal, of
\* which the model holds the superscript two (U+00B2)
isdigit(c) == isdecimal(c) \/ c = 178

\* int(c) of a one-character string that isdecimal; int raises ValueError
\* otherwise
int(c) == IF c <= 57 THEN c - 48 ELSE c - 1632

\* a * b as the decoder's unit: the product of an index and a/b degrees
Deg(a, b) == (a * Scale) \div b

\* ----------------------------------------------------- Maidenhead decoder

Raised(e) == [exc |-> e, lat |-> 0, lon |-> 0]

Returned(lat, lon) == [exc |-> "none", lat |-> lat, lon |-> lon]

\* Offsets the decoder adds for the third, fourth and fifth pair.
SubsquareLon(g) == IF Len(g) >= 6 THEN (Upper(g[5]) - ord_A) * Deg(2, 24) ELSE 0

\* SubsquareLat with the longitude's step, 2/24 degree.
SubsquareLat_LonStep(g) == IF Len(g) >= 6 THEN (Upper(g[6]) - ord_A) * Deg(2, 24) ELSE 0

SubsquareLat(g) == IF Len(g) >= 6 THEN (Upper(g[6]) - ord_A) * Deg(1, 24) ELSE 0

\* ExtSquareLon with the subsquare's cell divided by 24 instead of by 10.
ExtSquareLon_By24(g) == IF Len(g) >= 8 THEN int(g[7]) * Deg(2, 576) ELSE 0

ExtSquareLon(g) == IF Len(g) >= 8 THEN int(g[7]) * Deg(2, 240) ELSE 0

ExtSquareLat(g) == IF Len(g) >= 8 THEN int(g[8]) * Deg(1, 240) ELSE 0

ExtSubsquareLon(g) == IF Len(g) >= 10 THEN (Upper(g[9]) - ord_A) * Deg(2, 5760) ELSE 0

ExtSubsquareLat(g) == IF Len(g) >= 10 THEN (Upper(g[10]) - ord_A) * Deg(1, 5760) ELSE 0

\* EMECalculator.maidenhead_to_latlon: the statements in order, each index or
\* int() raising where Python raises.
maidenhead_to_latlon(grid0) ==
    LET grid == upper(grid0)
        n == Len(grid)
    IN  IF n < 2 THEN Raised("IndexError")
        ELSE IF n < 3 THEN Raised("IndexError")
        ELSE IF ~isdecimal(grid[3]) THEN Raised("ValueError")
        ELSE IF n < 4 THEN Raised("IndexError")
        ELSE IF ~isdecimal(grid[4]) THEN Raised("ValueError")
        ELSE IF n >= 8 /\ ~(isdecimal(grid[7]) /\ isdecimal(grid[8])) THEN Raised("ValueError")
        ELSE Returned(
               (grid[2] - ord_A) * Deg(10, 1) - Deg(90, 1) + int(grid[4]) * Deg(1, 1)
                 + SubsquareLat(grid) + ExtSquareLat(grid) + ExtSubsquareLat(grid),
               (grid[1] - ord_A) * Deg(20, 1) - Deg(180, 1) + int(grid[3]) * Deg(2, 1)
                 + SubsquareLon(grid) + ExtSquareLon(grid) + ExtSubsquareLon(grid))

\* lambda_function.validate_grid_square, given the upper-cased grid
validate_grid_square(grid) ==
    IF Len(grid) < 6 \/ Len(grid) > 8 THEN FALSE
    ELSE IF ~(isalpha(grid[1]) /\ isalpha(grid[2])
              /\ 65 <= grid[1] /\ grid[1] <= 82 /\ 65 <= grid[2] /\ grid[2] <= 82) THEN FALSE
    ELSE IF ~(isdigit(grid[3]) /\ isdigit(grid[4])) THEN FALSE
    ELSE IF Len(grid) >= 6
            /\ ~(isalpha(grid[5]) /\ isalpha(grid[6])
                 /\ 65 <= Upper(grid[5]) /\ Upper(grid[5]) <= 88
                 /\ 65 <= Upper(grid[6]) /\ Upper(grid[6]) <= 88) THEN FALSE
    ELSE IF Len(grid) = 8 /\ ~(isdigit(grid[7]) /\ isdigit(grid[8])) THEN FALSE
    ELSE TRUE

\* ------------------------------------------------------------ grid inputs

\* Code points that are valid at position i of a grid code: the field pair
\* takes A and R, a digit pair 0 and 9, a subsquare pair A and X (the ends of
\* each alphabet).
Alphabet(i) ==
    IF i <= 2 THEN {65, 82}
    ELSE IF ((i + 1) \div 2) % 2 = 0 THEN {48, 57}
    ELSE {65, 88}

\* Characters put in place of a valid one: S and Y (letters past R and past
\* X), a r s x y (lower case), 5 (a digit), / : @ [ (the neighbours of the
\* digits and of the letters), the superscript two and the Arabic-Indic
\* three.
ProbeChars == {83, 89, 97, 114, 115, 120, 121, 53, 47, 58, 64, 91, 178, 1635}

RECURSIVE Codes(_)
Codes(n) == IF n = 0 THEN {<< >>} ELSE {Append(g, c) : g \in Codes(n - 1), c \in Alphabet(n)}

\* The code of length n made of the first letter or digit of each alphabet.
LowCode(n) == [i \in 1..n |-> IF Alphabet(i) = {48, 57} THEN 48 ELSE 65]

\* Every code of every length up to MaxGridLen over the alphabets' ends (odd
\* and short lengths included), and the low code of every length with one
\* character replaced by a probe character.
GridInputs ==
    UNION {Codes(n) : n \in 0..MaxGridLen}
    \cup UNION {{[LowCode(n) EXCEPT ![i] = c] : i \in 1..n, c \in ProbeChars} : n \in 1..MaxGridLen}

\* The grid codes of the runs that scan: FN12FR, KQ20aa and FN12.
ScanGrids == {<<70, 78, 49, 50, 70, 82>>, <<75, 81, 50, 48, 97, 97>>, <<70, 78, 49, 50>>}

\* ------------------------------------------------------- ephemeris oracle

\* ephem.hour, in hours
Hour == 1

\* timedelta(days=1), in hours
Day == 24

\* The Moon rises about fifty minutes later each day: in whole hours, one.
LunarDay == Day + 1

\* Elevations of the seven hourly samples after a moonrise, by kind of night:
\* one that crosses 5 and 10 degrees exactly, one that never passes 5, one
\* that is above 5 from the first sample.
AltProfiles == << <<0, 5, 6, 10, 11, 25, 40>>,
                  <<-1, 2, 3, 4, 5, 5, 5>>,
                  <<6, 12, 20, 30, 35, 38, 40>> >>

\* Azimuth at moonrise, by kind of night; the Moon moves 15 degrees an hour.
AzBases == <<30, 105, 255>>

\* The oracles a run may meet: phase is the instant of the first moonrise at
\* longitude 0, alt and az the elevation profile and the azimuth base of the
\* first night (they change from night to night), polar the answer for a
\* query made on each day.
Skies == [phase : {0, 12, 23}, alt : 0..2, az : 0..2,
          polar : [0..(MaxDays - 1) -> {"ok", "NeverUpError", "AlwaysUpError"}]]

\* The first moonrise at a longitude: one hour later per 15 degrees west.
RisePhase(s, lon) == (s.phase + ((0 - lon) \div Deg(15, 1))) % LunarDay

\* Index of the last moonrise at or before instant t (-1: none yet).
RiseIndex(s, lon, t) ==
    IF t < RisePhase(s, lon) THEN 0 - 1 ELSE (t - RisePhase(s, lon)) \div LunarDay

\* observer.next_rising(moon): the first moonrise at or after observer.date,
\* or the error the oracle signals for that day.
next_rising(s, obs) ==
    LET d == obs.date \div Day
        p == RisePhase(s, obs.lon)
        k == RiseIndex(s, obs.lon, obs.date)
    IN  IF d \in DOMAIN s.polar /\ s.polar[d] # "ok" THEN [exc |-> s.polar[d], at |-> 0]
        ELSE IF k >= 0 /\ p + k * LunarDay = obs.date THEN [exc |-> "none", at |-> obs.date]
        ELSE [exc |-> "none", at |-> p + (k + 1) * LunarDay]

\* moon.compute(observer): the Moon's azimuth and elevation at observer.date.
\* More than six hours after a moonrise, or before the first, the Moon is
\* taken to be down.
compute(s, obs) ==
    LET k == RiseIndex(s, obs.lon, obs.date)
        h == obs.date - (RisePhase(s, obs.lon) + k * LunarDay)
    IN  IF k < 0 \/ h > 6 THEN [az |-> 0, alt |-> 0 - 20]
        ELSE [az |-> AzBases[((s.az + 2 * k) % 3) + 1] + 15 * h,
              alt |-> AltProfiles[((s.alt + k) % 3) + 1][h + 1]]

\* ------------------------------------------------------------ classifier

\* EMECalculator.TARGET_REGIONS
TARGET_REGIONS ==
    [region \in {"Europe", "Caribbean", "South America", "Africa", "Asia", "Oceania"} |->
        CASE region = "Europe" -> <<30, 90>>
          [] region = "Caribbean" -> <<120, 180>>
          [] region = "South America" -> <<150, 210>>
          [] region = "Africa" -> <<60, 120>>
          [] region = "Asia" -> <<300, 360>>
          [] region = "Oceania" -> <<240, 300>>]

\* list(self.TARGET_REGIONS.keys()), in the table's order
AllRegions == <<"Europe", "Caribbean", "South America", "Africa", "Asia", "Oceania">>

\* The handler's default for target_regions
DefaultRegions == <<"Europe", "Caribbean", "South America", "Africa">>

\* The target_regions a request may carry: none (the default), two
\* overlapping regions, and a list with a name the table does not hold.
RegionRequests == {DefaultRegions, <<"South America", "Caribbean">>,
                   <<"Oceania", "Atlantis", "Asia">>}

\* AboveHorizon with the threshold itself let through.
AboveHorizon_AtLeast(alt_deg) == alt_deg >= 5

\* if alt_deg > 5
AboveHorizon(alt_deg) == alt_deg > 5

\* if alt > 10
GoodElevation(alt) == alt > 10

\* InRange without the upper end.
InRange_HalfOpen(az, range) == range[1] <= az /\ az < range[2]

\* if min_az <= az <= max_az
InRange(az, range) == range[1] <= az /\ az <= range[2]

Opportunity(window, pos) ==
    [date |-> window.date, moonrise |-> window.moonrise, operating_time |-> pos.time,
     azimuth |-> pos.azimuth, elevation |-> pos.elevation,
     hours_after_rise |-> pos.hour_after_rise]

\* InRegion with every sample taken for a name the table does not hold.
InRegion_UnknownTakesAll(region, az) ==
    region \notin DOMAIN TARGET_REGIONS \/ InRange(az, TARGET_REGIONS[region])

\* if region in self.TARGET_REGIONS: min_az, max_az = ...; if min_az <= az <= max_az
InRegion(region, az) ==
    region \in DOMAIN TARGET_REGIONS /\ InRange(az, TARGET_REGIONS[region])

\* for region in target_regions: ...
RECURSIVE ForRegions(_, _, _, _, _)
ForRegions(region_windows, window, pos, target_regions, i) ==
    IF i > Len(target_regions) THEN region_windows
    ELSE LET region == target_regions[i]
         IN  ForRegions(
               IF InRegion(region, pos.azimuth)
               THEN [region_windows EXCEPT ![region] = Append(@, Opportunity(window, pos))]
               ELSE region_windows,
               window, pos, target_regions, i + 1)

\* for pos in window['positions']: ...
RECURSIVE ForPositions(_, _, _, _)
ForPositions(region_windows, window, target_regions, j) ==
    IF j > Len(window.positions) THEN region_windows
    ELSE LET pos == window.positions[j]
         IN  ForPositions(
               IF GoodElevation(pos.elevation)
               THEN ForRegions(region_windows, window, pos, target_regions, 1)
               ELSE region_windows,
               window, target_regions, j + 1)

\* ForWindows taking the windows from the last to the first.
RECURSIVE ForWindows_Backwards(_, _, _, _)
ForWindows_Backwards(region_windows, windows, target_regions, w) ==
    IF w > Len(windows) THEN region_windows
    ELSE ForWindows_Backwards(
           ForPositions(region_windows, windows[Len(windows) + 1 - w], target_regions, 1),
           windows, target_regions, w + 1)

\* for window in windows: ...
RECURSIVE ForWindows(_, _, _, _)
ForWindows(region_windows, windows, target_regions, w) ==
    IF w > Len(windows) THEN region_windows
    ELSE ForWindows(ForPositions(region_windows, windows[w], target_regions, 1),
                    windows, target_regions, w + 1)

\* A target_regions argument: None, or a list of names
None == [none |-> TRUE, list |-> << >>]

Some(list) == [none |-> FALSE, list |-> list]

\* EMECalculator.analyze_eme_opportunities
analyze_eme_opportunities(windows, target_regions_arg) ==
    LET target_regions == IF target_regions_arg.none THEN AllRegions ELSE target_regions_arg.list
    IN  ForWindows([region \in {target_regions[i] : i \in 1..Len(target_regions)} |-> << >>],
                   windows, target_regions, 1)

\* ------------------------------------------------------------ RF analysis
\* Decibels are whole numbers of 1/10000 dB, dish diameters and wavelengths
\* of millimetres, tree heights and distances of feet. Floating-point
\* rounding is not modelled.

dB == 10000

\* One entry of RFAnalyzer.BAND_CHARACTERISTICS: wavelength_cm in
\* millimetres, tree_attenuation_db_per_m in tenths, rain_rate_coefficient in
\* 1/10000, path_loss_free_space_db = 32.4 + 20 log10(f) in 1/10000 dB.
Band(wavelength, attenuation, rain, noise, min_elevation, path_loss) ==
    [wavelength_cm |-> wavelength, tree_attenuation_db_per_m |-> attenuation,
     rain_rate_coefficient |-> rain, atmospheric_noise_k |-> noise,
     min_elevation_deg |-> min_elevation, path_loss_free_space_db |-> path_loss]

\* The frequencies of the band tables, in the tables' order
Frequencies == <<144, 432, 902, 1296, 2304, 3456, 5760, 10000, 10368>>

\* RFAnalyzer.BAND_CHARACTERISTICS
BAND_CHARACTERISTICS ==
    [f \in {Frequencies[i] : i \in 1..Len(Frequencies)} |->
        CASE f = 144 -> Band(2083, 1, 1, 290, 5, 755672)
          [] f = 432 -> Band(694, 3, 3, 150, 8, 851097)
          [] f = 902 -> Band(332, 5, 10, 100, 10, 915041)
          [] f = 1296 -> Band(231, 10, 20, 50, 10, 946521)
          [] f = 2304 -> Band(130, 20, 80, 30, 15, 996496)
          [] f = 3456 -> Band(87, 35, 150, 25, 20, 1031715)
          [] f = 5760 -> Band(52, 50, 350, 20, 25, 1076084)
          [] f = 10000 -> Band(30, 75, 750, 15, 30, 1124000)
          [] f = 10368 -> Band(29, 80, 800, 15, 30, 1127139)]

\* math.log10 of the whole numbers the analysis takes it of, in 1/100000
\* (so that 10 * log10(n) is log10(n) of the table in 1/10000 dB)
log10(n) ==
    CASE n = 1 -> 0          [] n = 29 -> 146240     [] n = 30 -> 147712
      [] n = 52 -> 171600    [] n = 65 -> 181291     [] n = 70 -> 184510
      [] n = 75 -> 187506    [] n = 80 -> 190309     [] n = 87 -> 193952
      [] n = 100 -> 200000   [] n = 130 -> 211394    [] n = 150 -> 217609
      [] n = 200 -> 230103   [] n = 231 -> 236361    [] n = 300 -> 247712
      [] n = 332 -> 252114   [] n = 340 -> 253148    [] n = 600 -> 277815
      [] n = 694 -> 284136   [] n = 1500 -> 317609   [] n = 2083 -> 331869
      [] n = 2400 -> 338021  [] n = 25000 -> 439794  [] n = 45000 -> 465321
      [] n = 770000 -> 588649

\* math.tan of the minimum elevations of the table, in millionths rounded
\* down: math.degrees(math.atan(x)) > a is decided as x > tan(a).
tan(degrees) ==
    CASE degrees = 5 -> 87488    [] degrees = 8 -> 140540   [] degrees = 10 -> 176326
      [] degrees = 15 -> 267949  [] degrees = 20 -> 363970  [] degrees = 25 -> 466307
      [] degrees = 30 -> 577350

\* The largest k with k * k <= n, between lo and hi.
RECURSIVE Root(_, _, _)
Root(n, lo, hi) ==
    IF hi - lo <= 1 THEN lo
    ELSE LET mid == (lo + hi) \div 2
         IN  IF mid * mid <= n THEN Root(n, mid, hi) ELSE Root(n, lo, mid)

\* tree_height_m / math.sin(math.atan(tree_height_m / tree_distance_m)), in
\* millimetres: the hypotenuse of the triangle of height and distance, taken
\* in hundredths of a foot and converted at 0.3048 m a foot.
path_through_trees_m(tree_height_ft, tree_distance_ft) ==
    (Root((tree_height_ft * tree_height_ft + tree_distance_ft * tree_distance_ft) * 10000,
          0, 46341) * 3048) \div 1000

\* ClearanceExceeds with the minimum elevation left out.
ClearanceExceeds_Always(tree_height_ft, tree_distance_ft, min_elevation_deg) == TRUE

\* if clearance_angle_deg > band["min_elevation_deg"]
ClearanceExceeds(tree_height_ft, tree_distance_ft, min_elevation_deg) ==
    tree_height_ft * 1000000 > tree_distance_ft * tan(min_elevation_deg)

Min(a, b) == IF a < b THEN a ELSE b

Max(a, b) == IF a > b THEN a ELSE b

\* calculate_tree_loss without the cap.
calculate_tree_loss_Uncapped(frequency_mhz, tree_height_ft, tree_distance_ft) ==
    IF tree_height_ft <= 0 \/ tree_distance_ft <= 0 THEN 0
    ELSE LET band == BAND_CHARACTERISTICS[frequency_mhz]
         IN  IF ClearanceExceeds(tree_height_ft, tree_distance_ft, band.min_elevation_deg)
             THEN band.tree_attenuation_db_per_m
                    * path_through_trees_m(tree_height_ft, tree_distance_ft)
             ELSE 0

\* RFAnalyzer.calculate_tree_loss
calculate_tree_loss(frequency_mhz, tree_height_ft, tree_distance_ft) ==
    IF tree_height_ft <= 0 \/ tree_distance_ft <= 0 THEN 0
    ELSE LET band == BAND_CHARACTERISTICS[frequency_mhz]
         IN  IF ClearanceExceeds(tree_height_ft, tree_distance_ft, band.min_elevation_deg)
             THEN LET loss_db == band.tree_attenuation_db_per_m
                                   * path_through_trees_m(tree_height_ft, tree_distance_ft)
                  IN  Min(loss_db, 40 * dB)
             ELSE 0

\* RFAnalyzer.calculate_rain_fade: k * rain_rate ** 1.0 * 5 km
calculate_rain_fade(frequency_mhz, rain_rate_mm_hr) ==
    LET band == BAND_CHARACTERISTICS[frequency_mhz]
        fade_db_per_km == band.rain_rate_coefficient * rain_rate_mm_hr
    IN  fade_db_per_km * 5

\* calculate_suitability_score with every tree-loss tier that matches taken.
calculate_suitability_score_EveryTier(frequency_mhz, dish_diameter_m, tree_loss_db) ==
    LET band == BAND_CHARACTERISTICS[frequency_mhz]
        dish == IF dish_diameter_m < 10 * band.wavelength_cm THEN 100 - 30
                ELSE IF dish_diameter_m < 20 * band.wavelength_cm THEN 100 - 15
                ELSE 100
        trees == dish - (IF tree_loss_db > 20 * dB THEN 40 ELSE 0)
                      - (IF tree_loss_db > 10 * dB THEN 20 ELSE 0)
                      - (IF tree_loss_db > 5 * dB THEN 10 ELSE 0)
        score == IF frequency_mhz >= 3456 THEN trees - 10
                 ELSE IF frequency_mhz <= 432 THEN trees + 10
                 ELSE trees
    IN  Max(0, Min(100, score))

\* RFAnalyzer.calculate_suitability_score; dish_wavelengths < 10 is decided
\* as dish_diameter < 10 * wavelength.
calculate_suitability_score(frequency_mhz, dish_diameter_m, tree_loss_db) ==
    LET band == BAND_CHARACTERISTICS[frequency_mhz]
        dish == IF dish_diameter_m < 10 * band.wavelength_cm THEN 100 - 30
                ELSE IF dish_diameter_m < 20 * band.wavelength_cm THEN 100 - 15
                ELSE 100
        trees == IF tree_loss_db > 20 * dB THEN dish - 40
                 ELSE IF tree_loss_db > 10 * dB THEN dish - 20
                 ELSE IF tree_loss_db > 5 * dB THEN dish - 10
                 ELSE dish
        score == IF frequency_mhz >= 3456 THEN trees - 10
                 ELSE IF frequency_mhz <= 432 THEN trees + 10
                 ELSE trees
    IN  Max(0, Min(100, score))

\* A call that raised
Raises(e) == [exc |-> e]

\* 10 * math.log10(efficiency * (math.pi * dish_diameter_m / wavelength_m) ** 2),
\* as 10 log10(0.6 pi^2) + 20 log10(dish) - 20 log10(wavelength)
gain_db(dish_diameter_m, wavelength_m) ==
    77245 + 2 * log10(dish_diameter_m) - 2 * log10(wavelength_m)

\* RFAnalyzer.analyze_frequency_band
analyze_frequency_band(frequency_mhz, dish_diameter_m, tree_height_ft, tree_distance_ft, rain_rate_mm_hr) ==
    IF frequency_mhz \notin DOMAIN BAND_CHARACTERISTICS THEN Raises("ValueError")
    ELSE LET band == BAND_CHARACTERISTICS[frequency_mhz]
             tree_loss_db == calculate_tree_loss(frequency_mhz, tree_height_ft, tree_distance_ft)
         IN  [exc |-> "none",
              frequency_mhz |-> frequency_mhz,
              wavelength_cm |-> band.wavelength_cm,
              antenna_gain_db |-> gain_db(dish_diameter_m, band.wavelength_cm),
              tree_loss_db |-> tree_loss_db,
              rain_fade_db |-> calculate_rain_fade(frequency_mhz, rain_rate_mm_hr),
              path_loss_db |-> band.path_loss_free_space_db + 2 * log10(770000),
              system_noise_k |-> band.atmospheric_noise_k + 50,
              min_elevation_deg |-> band.min_elevation_deg,
              suitability_score |->
                  calculate_suitability_score(frequency_mhz, dish_diameter_m, tree_loss_db)]

\* feasible with a signal at the required 10 dB let through.
feasible_AtLeast(snr_db) == snr_db >= 10 * dB

\* "feasible": snr_db > 10
feasible(snr_db) == snr_db > 10 * dB

\* RFAnalyzer.calculate_link_budget; elevation_deg in 1/10000 degree
calculate_link_budget(frequency_mhz, dish_diameter_m, tx_power_w, elevation_deg) ==
    LET analysis == analyze_frequency_band(frequency_mhz, dish_diameter_m, 0, 100, 5)
    IN  IF analysis.exc # "none" THEN analysis
        ELSE LET tx_power_dbw == log10(tx_power_w)
                 tx_gain_db == analysis.antenna_gain_db
                 rx_gain_db == analysis.antenna_gain_db
                 path_loss_db == analysis.path_loss_db
                 misc_losses_db == 3 * dB
                 elevation_loss_db == IF elevation_deg < 10 * 10000
                                      THEN ((10 * 10000 - elevation_deg) * 5) \div 10
                                      ELSE 0
                 rx_signal_dbw == tx_power_dbw + tx_gain_db + rx_gain_db
                                    - path_loss_db - misc_losses_db - elevation_loss_db
                 noise_floor_dbw == (0 - 1946218) + log10(analysis.system_noise_k)
                 snr_db == rx_signal_dbw - noise_floor_dbw
             IN  [exc |-> "none",
                  frequency_mhz |-> frequency_mhz,
                  tx_power_dbw |-> tx_power_dbw,
                  tx_gain_db |-> tx_gain_db,
                  rx_gain_db |-> rx_gain_db,
                  path_loss_db |-> path_loss_db,
                  misc_losses_db |-> misc_losses_db,
                  elevation_loss_db |-> elevation_loss_db,
                  rx_signal_dbw |-> rx_signal_dbw,
                  noise_floor_dbw |-> noise_floor_dbw,
                  snr_db |-> snr_db,
                  link_margin_db |-> snr_db - 10 * dB,
                  feasible |-> feasible(snr_db)]

\* ------------------------------------------- EMECalculator's own estimates

\* EMECalculator.BANDS: wavelength_cm in millimetres
BANDS ==
    [f \in {Frequencies[i] : i \in 1..Len(Frequencies)} |->
        CASE f = 144 -> [name |-> "2m", wavelength_cm |-> 2083, tree_sensitivity |-> "low"]
          [] f = 432 -> [name |-> "70cm", wavelength_cm |-> 694, tree_sensitivity |-> "medium"]
          [] f = 902 -> [name |-> "33cm", wavelength_cm |-> 332, tree_sensitivity |-> "medium"]
          [] f = 1296 -> [name |-> "23cm", wavelength_cm |-> 231, tree_sensitivity |-> "high"]
          [] f = 2304 -> [name |-> "13cm", wavelength_cm |-> 130, tree_sensitivity |-> "very_high"]
          [] f = 3456 -> [name |-> "9cm", wavelength_cm |-> 87, tree_sensitivity |-> "extreme"]
          [] f = 5760 -> [name |-> "6cm", wavelength_cm |-> 52, tree_sensitivity |-> "extreme"]
          [] f = 10000 -> [name |-> "3cm", wavelength_cm |-> 30, tree_sensitivity |-> "extreme"]
          [] f = 10368 -> [name |-> "3cm", wavelength_cm |-> 29, tree_sensitivity |-> "extreme"]]

Abs(x) == IF x < 0 THEN 0 - x ELSE x

\* min(self.BANDS.keys(), key=lambda x: abs(x - frequency_mhz)): the first
\* key, in the table's order, at the least distance
RECURSIVE Closest(_, _, _)
Closest(frequency_mhz, best, i) ==
    IF i > Len(Frequencies) THEN best
    ELSE Closest(frequency_mhz,
                 IF Abs(Frequencies[i] - frequency_mhz) < Abs(best - frequency_mhz)
                 THEN Frequencies[i] ELSE best,
                 i + 1)

closest_freq(frequency_mhz) == Closest(frequency_mhz, Frequencies[1], 2)

\* EMECalculator.calculate_rf_considerations; wavelength_cm in micrometres
\* (29979.2458 / frequency_mhz cm is 299792458 / frequency_mhz micrometres),
\* the tree loss min(30, frequency_mhz / 144 * 2 * (tree_height_ft / 50)) as
\* frequency_mhz * tree_height_ft / 3600 dB.
calculate_rf_considerations(frequency_mhz, tree_height_ft, tree_distance_ft) ==
    LET band_info == IF frequency_mhz \notin DOMAIN BANDS
                     THEN [BANDS[closest_freq(frequency_mhz)] EXCEPT
                              !.wavelength_cm = 299792458 \div frequency_mhz]
                     ELSE [BANDS[frequency_mhz] EXCEPT !.wavelength_cm = @ * 1000]
        tree_loss_db == IF tree_height_ft > 0
                        THEN Min(30 * dB, (frequency_mhz * tree_height_ft * 25) \div 9)
                        ELSE 0
        rain_fade_db == IF frequency_mhz > 1000 THEN 5 * frequency_mhz ELSE 0
    IN  [exc |-> "none",
         frequency_mhz |-> frequency_mhz,
         band_name |-> band_info.name,
         wavelength_cm |-> band_info.wavelength_cm,
         tree_sensitivity |-> band_info.tree_sensitivity,
         estimated_tree_loss_db |-> tree_loss_db,
         estimated_rain_fade_db |-> rain_fade_db]

\* ------------------------------------------------------------ wind loading
\* The wind load is a product of powers of the inputs and of the code's
\* decimal constants. A quantity is held exactly, as the exponent of pi and
\* of each prime of its numerator and denominator, with its sign; zero has
\* sign 0 and no factors.

PrimeSeq == <<2, 3, 5, 7, 11, 127, 139>>

Primes == {PrimeSeq[i] : i \in 1..Len(PrimeSeq)}

\* How many times p divides n
RECURSIVE Exponent(_, _)
Exponent(n, p) == IF n % p = 0 THEN 1 + Exponent(n \div p, p) ELSE 0

\* What is left of n without its factors p
RECURSIVE Without(_, _)
Without(n, p) == IF n % p = 0 THEN Without(n \div p, p) ELSE n

\* What is left of n without its factors among the primes from the i-th on
RECURSIVE Strip(_, _)
Strip(n, i) == IF i > Len(PrimeSeq) THEN n ELSE Strip(Without(n, PrimeSeq[i]), i + 1)

\* n is zero or a product of the primes, so that Q holds it exactly
Smooth(n) == n = 0 \/ Strip(Abs(n), 1) = 1

Sign(n) == IF n > 0 THEN 1 ELSE IF n < 0 THEN 0 - 1 ELSE 0

Zero == [sign |-> 0, pi |-> 0, e |-> [p \in Primes |-> 0]]

\* The quantity n / m, m not zero
Q(n, m) ==
    IF n = 0 THEN Zero
    ELSE [sign |-> Sign(n) * Sign(m), pi |-> 0,
          e |-> [p \in Primes |-> Exponent(Abs(n), p) - Exponent(Abs(m), p)]]

pi == [sign |-> 1, pi |-> 1, e |-> [p \in Primes |-> 0]]

Times(a, b) ==
    IF a.sign * b.sign = 0 THEN Zero
    ELSE [sign |-> a.sign * b.sign, pi |-> a.pi + b.pi,
          e |-> [p \in Primes |-> a.e[p] + b.e[p]]]

\* a / b, b not zero: the code divides by its constants only
Over(a, b) ==
    IF a.sign = 0 THEN Zero
    ELSE [sign |-> a.sign * b.sign, pi |-> a.pi - b.pi,
          e |-> [p \in Primes |-> a.e[p] - b.e[p]]]

Squared(a) == Times(a, a)

\* pressure_pa proportional to the speed, not to its square.
pressure_pa_Linear(air_density, wind_speed_ms) ==
    Times(Times(Q(5, 10), air_density), wind_speed_ms)

\* pressure_pa = 0.5 * air_density * wind_speed_ms**2
pressure_pa(air_density, wind_speed_ms) ==
    Times(Times(Q(5, 10), air_density), Squared(wind_speed_ms))

\* EMECalculator.calculate_wind_loading, of a diameter and a speed given as
\* quantities
calculate_wind_loading(dish_diameter_m, wind_speed_mph) ==
    LET dish_area == Times(pi, Squared(Over(dish_diameter_m, Q(2, 1))))
        wind_speed_ms == Times(wind_speed_mph, Q(44704, 100000))
        air_density == Q(1225, 1000)
        pressure == pressure_pa(air_density, wind_speed_ms)
        force_n == Times(pressure, dish_area)
        force_lbf == Over(force_n, Q(4448, 1000))
    IN  [exc |-> "none",
         dish_area_m2 |-> dish_area,
         wind_speed_mph |-> wind_speed_mph,
         wind_speed_ms |-> wind_speed_ms,
         pressure_pa |-> pressure,
         force_n |-> force_n,
         force_lbf |-> force_lbf]

\* ------------------------------------------ tree blockage, recommendations

\* math.degrees(math.atan(tree_height_m / tree_distance_m)) in 1/10000
\* degree, for the heights and distances the functions are applied to
atan_degrees(tree_height_ft, tree_distance_ft) ==
    CASE tree_height_ft = 0 -> 0
      [] tree_height_ft = 5 /\ tree_distance_ft = 40 -> 71250
      [] tree_height_ft = 5 /\ tree_distance_ft = 100 -> 28624
      [] tree_height_ft = 30 /\ tree_distance_ft = 40 -> 368699
      [] tree_height_ft = 30 /\ tree_distance_ft = 100 -> 166992
      [] tree_height_ft = 60 /\ tree_distance_ft = 40 -> 563099
      [] tree_height_ft = 60 /\ tree_distance_ft = 100 -> 309638
      [] tree_height_ft = 80 /\ tree_distance_ft = 40 -> 634349
      [] tree_height_ft = 80 /\ tree_distance_ft = 100 -> 386598
      [] tree_height_ft = 120 /\ tree_distance_ft = 40 -> 715651
      [] tree_height_ft = 120 /\ tree_distance_ft = 100 -> 501944

\* EMECalculator.calculate_tree_blockage; blockage_angle_deg in 1/10000
\* degree. For a distance <= 0 the result holds the angle and nothing else.
calculate_tree_blockage(tree_height_ft, tree_distance_ft) ==
    IF tree_distance_ft <= 0 THEN [blockage_angle_deg |-> 90 * 10000]
    ELSE [tree_height_ft |-> tree_height_ft,
          tree_distance_ft |-> tree_distance_ft,
          blockage_angle_deg |-> atan_degrees(tree_height_ft, tree_distance_ft)]

\* EMECalculator.generate_recommendations, of the three results both callers
\* put in analysis_results. A message is held as its kind and the values its
\* text names; reading a key the blockage result lacks raises KeyError.
generate_recommendations(tree_blockage, wind_loading, rf) ==
    LET blockage == tree_blockage.blockage_angle_deg
        warns == blockage > 30 * 10000
        critical == rf.tree_sensitivity \in {"high", "very_high", "extreme"}
    IN  IF warns /\ ~({"tree_distance_ft", "tree_height_ft"} \subseteq DOMAIN tree_blockage)
        THEN Raises("KeyError")
        ELSE [exc |-> "none",
              optimal_location |-> "East or southeast of reference point",
              reasoning |->
                  (IF warns
                   THEN << [kind |-> "tree_clearance",
                            tree_distance_ft |-> tree_blockage.tree_distance_ft,
                            tree_height_ft |-> tree_blockage.tree_height_ft,
                            blockage |-> blockage] >>
                   ELSE << >>)
                  \o (IF critical
                      THEN << [kind |-> "line_of_sight", band_name |-> rf.band_name,
                               frequency_mhz |-> rf.frequency_mhz] >>
                      ELSE << >>),
              technical_requirements |->
                  << [kind |-> "foundation", force_lbf |-> wind_loading.force_lbf] >>,
              operational_notes |-> << >>]

\* ------------------------------------------------------------------ state

Runs == {1, 2}

VARIABLES
    entry,             \* per run: "lambda" (lambda_handler) or "cli" (main)
    grid,              \* per run: the grid code of the request or of --grid
    target_regions,    \* per run: the target_regions argument of the classifier
    pc,                \* per run: the statement the run is at
    status,            \* per run: "none", the statusCode returned, or the exception raised
    calc,              \* per run: the Observer its EMECalculator holds (0: none yet)
    observer,          \* the ephem.Observer objects: lat, lon, elevation, date
    allocated,         \* how many Observer objects have been created
    loc,               \* per run: lat, lon as returned by maidenhead_to_latlon
    current_date,      \* per run: locals of calculate_moonrise_windows
    day,
    moonrise,
    hour_offset,
    window_positions,
    windows,
    region_windows,    \* per run: the result of analyze_eme_opportunities
    sky,               \* the oracle the runs query
    event,             \* per run: the handler's event, or the command line's arguments
    responses,         \* per run: the responses its handler has returned
    deploy,            \* the invocation of the deployment handler
    call               \* the RF or wind function applied on its own: op, args, result

vars == <<entry, grid, target_regions, pc, status, calc, observer, allocated, loc,
          current_date, day, moonrise, hour_offset, window_positions, windows,
          region_windows, sky, event, responses, deploy, call>>

\* The variables of the runs
runVars == <<entry, grid, target_regions, pc, status, calc, observer, allocated, loc,
             current_date, day, moonrise, hour_offset, window_positions, windows,
             region_windows, sky, event, responses>>

\* The deployment handler not invoked
NoDeploy ==
    [pc |-> "idle", environ |-> {}, has_url |-> FALSE, bucket |-> {}, uploaded |-> << >>,
     sent |-> << >>, error |-> "none"]

\* No function applied yet
NoCall == [op |-> "none", args |-> << >>, result |-> Raises("unset")]

scanVars == <<current_date, day, moonrise, hour_offset, window_positions, windows>>

\* ephem.Observer(): at latitude and longitude 0, dated now
NewObserver == [lat |-> 0, lon |-> 0, elevation |-> 0, date |-> 0]

\* EMECalculator_init handing every calculator the first Observer created.
EMECalculator_init_Shared(fresh) == 1

\* The Observer that EMECalculator.__init__ stores in self.observer, when
\* `fresh` is the object ephem.Observer() has just created.
EMECalculator_init(fresh) == fresh

\* The grid code as the run hands it to the decoder: the handler upper-cases
\* it first, the command line passes --grid as typed.
grid_square(r) == IF entry[r] = "lambda" THEN upper(grid[r]) ELSE grid[r]

\* The days argument of calculate_moonrise_windows
days(r) == MaxDays

\* required_fields of lambda_handler
required_fields == {"grid_square", "frequency_mhz", "dish_diameter_m", "max_wind_mph"}

\* The CORS headers every response of lambda_handler is given
headers ==
    [Content_Type |-> "application/json",
     Access_Control_Allow_Origin |-> "*",
     Access_Control_Allow_Headers |-> "Content-Type",
     Access_Control_Allow_Methods |-> "OPTIONS,POST,GET"]

\* A POST whose body holds the required fields, for 1296 MHz, and leaves
\* the trees to the handler's defaults (height 0 at 100 ft); `fields` are the
\* required fields the body holds, `body` is "object" or, for a string that
\* json.loads refuses, "malformed", and `convertible` is whether int() and
\* float() take the values of the numeric fields.
PlainEvent ==
    [httpMethod |-> "POST", body |-> "object", fields |-> required_fields,
     convertible |-> TRUE, frequency_mhz |-> 1296, tree_height_ft |-> 0, tree_distance_ft |-> 100]

\* The events of the handler: an OPTIONS or a POST, whose body is malformed,
\* or lacks one required field, or holds a value that is no number, or names
\* 80 ft trees at 100 ft, or at distance 0.
Events ==
    [httpMethod : {"OPTIONS", "POST"},
     body : {"object", "malformed"},
     fields : {required_fields} \cup {required_fields \ {f} : f \in required_fields},
     convertible : BOOLEAN,
     frequency_mhz : {1296},
     tree_height_ft : {80},
     tree_distance_ft : {0, 100}]

\* The state of the runs in `active` before their first statement.
Begin(active) ==
    /\ pc = [r \in Runs |-> IF r \in active THEN "start" ELSE "idle"]
    /\ target_regions = [r \in Runs |-> None]
    /\ status = [r \in Runs |-> "none"]
    /\ calc = [r \in Runs |-> 0]
    /\ observer = [o \in 1..Cardinality(Runs) |-> NewObserver]
    /\ allocated = 0
    /\ loc = [r \in Runs |-> Raised("unset")]
    /\ current_date = [r \in Runs |-> 0]
    /\ day = [r \in Runs |-> 0]
    /\ moonrise = [r \in Runs |-> 0]
    /\ hour_offset = [r \in Runs |-> 0]
    /\ window_positions = [r \in Runs |-> << >>]
    /\ windows = [r \in Runs |-> << >>]
    /\ region_windows = [r \in Runs |-> << >>]
    /\ responses = [r \in Runs |-> << >>]
    /\ call = NoCall

\* One run, over the grid codes that scan and every oracle.
Init ==
    /\ Begin({1})
    /\ deploy = NoDeploy
    /\ event = [r \in Runs |-> PlainEvent]
    /\ entry \in [Runs -> {"lambda", "cli"}] /\ entry[2] = "lambda"
    /\ grid \in [Runs -> ScanGrids] /\ grid[2] = grid[1]
    /\ sky \in Skies

\* ---------------------------------------------------------------- actions

Goto(r, label) == pc' = [pc EXCEPT ![r] = label]

\* DayStart leaving the observer's date where the previous day left it.
DayStart_Stale(cursor, date) == cursor

\* The date the scan gives the observer at the head of a day, whatever date
\* the previous day left there: self.observer.date = current_date.
DayStart(cursor, date) == date

\* OnPolarDay with the error ending the loop over the days.
OnPolarDay_EndsScan == "classify"

\* What the run does when the oracle signals NeverUpError or AlwaysUpError:
\* `except ...: pass`, then the statement after the try (current_date += ...).
OnPolarDay == "advance"

\* return {'statusCode': ..., 'headers': headers, 'body': ...}: the handler
\* returns, its response holding the message or the error of its body.
Respond(r, statusCode, message) ==
    /\ status' = [status EXCEPT ![r] = statusCode]
    /\ responses' = [responses EXCEPT ![r] =
                       Append(@, [statusCode |-> statusCode, headers |-> headers,
                                  body |-> message])]
    /\ Goto(r, "returned")

\* lambda_handler up to the grid validation, or main up to EMECalculator():
\* the handler answers OPTIONS with 200 before it reads the body, a body
\* that json.loads refuses with 500, a missing required field with 400, a
\* value that int() or float() refuses with 500, and a grid that
\* validate_grid_square refuses with 400; otherwise the request's
\* target_regions is read.
Start(r) ==
    /\ pc[r] = "start"
    /\ IF entry[r] # "lambda"
       THEN Goto(r, "construct") /\ UNCHANGED <<target_regions, status, responses>>
       ELSE IF event[r].httpMethod = "OPTIONS"
       THEN Respond(r, "200", "CORS preflight") /\ UNCHANGED target_regions
       ELSE IF event[r].body = "malformed"
       THEN Respond(r, "500", "JSONDecodeError") /\ UNCHANGED target_regions
       ELSE IF event[r].fields # required_fields
       THEN Respond(r, "400", "Missing required field") /\ UNCHANGED target_regions
       ELSE IF ~event[r].convertible
       THEN Respond(r, "500", "ValueError") /\ UNCHANGED target_regions
       ELSE /\ \E req \in RegionRequests :
                  target_regions' = [target_regions EXCEPT ![r] = Some(req)]
            /\ IF validate_grid_square(grid_square(r))
               THEN Goto(r, "construct") /\ UNCHANGED <<status, responses>>
               ELSE Respond(r, "400", "Invalid grid square format")
    /\ UNCHANGED <<call, deploy, event, entry, grid, calc, observer, allocated, loc, scanVars, region_windows, sky>>

\* calc = EMECalculator()
Construct(r) ==
    /\ pc[r] = "construct"
    /\ allocated' = allocated + 1
    /\ calc' = [calc EXCEPT ![r] = EMECalculator_init(allocated + 1)]
    /\ observer' = [observer EXCEPT ![allocated + 1] = NewObserver]
    /\ Goto(r, "decode")
    /\ UNCHANGED <<call, deploy, event, responses, entry, grid, target_regions, status, loc, scanVars, region_windows, sky>>

\* lat, lon = calc.maidenhead_to_latlon(grid): the handler answers an
\* exception with 400, the command line lets it escape.
Decode(r) ==
    /\ pc[r] = "decode"
    /\ LET res == maidenhead_to_latlon(grid_square(r))
       IN  IF res.exc = "none"
           THEN /\ loc' = [loc EXCEPT ![r] = res]
                /\ Goto(r, "setup")
                /\ UNCHANGED <<status, responses>>
           ELSE /\ loc' = [loc EXCEPT ![r] = res]
                /\ IF entry[r] = "lambda"
                   THEN Respond(r, "400", "Invalid grid square")
                   ELSE /\ Goto(r, "returned")
                        /\ status' = [status EXCEPT ![r] = res.exc]
                        /\ UNCHANGED responses
    /\ UNCHANGED <<call, deploy, event, entry, grid, target_regions, calc, observer, allocated, scanVars,
                   region_windows, sky>>

\* calc.setup_observer(lat, lon, elevation_m)
SetupObserver(r) ==
    /\ pc[r] = "setup"
    /\ observer' = [observer EXCEPT ![calc[r]] =
                      [@ EXCEPT !.lat = loc[r].lat, !.lon = loc[r].lon, !.elevation = 0]]
    /\ Goto(r, "scan")
    /\ UNCHANGED <<call, deploy, event, responses, entry, grid, target_regions, status, calc, allocated, loc, scanVars,
                   region_windows, sky>>

\* calculate_moonrise_windows: windows = []; current_date = start_date
ScanStart(r) ==
    /\ pc[r] = "scan"
    /\ windows' = [windows EXCEPT ![r] = << >>]
    /\ current_date' = [current_date EXCEPT ![r] = 0]
    /\ day' = [day EXCEPT ![r] = 0]
    /\ Goto(r, "for_day")
    /\ UNCHANGED <<call, deploy, event, responses, entry, grid, target_regions, status, calc, observer, allocated, loc,
                   moonrise, hour_offset, window_positions, region_windows, sky>>

\* for day in range(days): self.observer.date = current_date
ForDay(r) ==
    /\ pc[r] = "for_day"
    /\ IF day[r] < days(r)
       THEN /\ observer' = [observer EXCEPT ![calc[r]].date =
                                DayStart(observer[calc[r]].date, current_date[r])]
            /\ Goto(r, "rising")
       ELSE /\ Goto(r, "classify")
            /\ UNCHANGED observer
    /\ UNCHANGED <<call, deploy, event, responses, entry, grid, target_regions, status, calc, allocated, loc, scanVars,
                   region_windows, sky>>

\* moonrise = self.observer.next_rising(moon); window_positions = []
Rising(r) ==
    /\ pc[r] = "rising"
    /\ LET res == next_rising(sky, observer[calc[r]])
       IN  IF res.exc = "none"
           THEN /\ moonrise' = [moonrise EXCEPT ![r] = res.at]
                /\ window_positions' = [window_positions EXCEPT ![r] = << >>]
                /\ hour_offset' = [hour_offset EXCEPT ![r] = 0]
                /\ Goto(r, "for_hour")
           ELSE /\ Goto(r, OnPolarDay)
                /\ UNCHANGED <<moonrise, window_positions, hour_offset>>
    /\ UNCHANGED <<call, deploy, event, responses, entry, grid, target_regions, status, calc, observer, allocated, loc,
                   current_date, day, windows, region_windows, sky>>

\* for hour_offset in range(7): self.observer.date = moonrise + hour_offset * ephem.hour
ForHour(r) ==
    /\ pc[r] = "for_hour"
    /\ IF hour_offset[r] < 7
       THEN /\ observer' = [observer EXCEPT ![calc[r]].date = moonrise[r] + hour_offset[r] * Hour]
            /\ Goto(r, "compute")
       ELSE /\ Goto(r, "emit")
            /\ UNCHANGED observer
    /\ UNCHANGED <<call, deploy, event, responses, entry, grid, target_regions, status, calc, allocated, loc, scanVars,
                   region_windows, sky>>

\* moon.compute(self.observer); if alt_deg > 5: window_positions.append({...})
Compute(r) ==
    /\ pc[r] = "compute"
    /\ LET moon == compute(sky, observer[calc[r]])
       IN  window_positions' = [window_positions EXCEPT ![r] =
               IF AboveHorizon(moon.alt)
               THEN Append(@, [time |-> observer[calc[r]].date, azimuth |-> moon.az,
                               elevation |-> moon.alt, hour_after_rise |-> hour_offset[r]])
               ELSE @]
    /\ hour_offset' = [hour_offset EXCEPT ![r] = @ + 1]
    /\ Goto(r, "for_hour")
    /\ UNCHANGED <<call, deploy, event, responses, entry, grid, target_regions, status, calc, observer, allocated, loc,
                   current_date, day, moonrise, windows, region_windows, sky>>

\* if window_positions: windows.append({...})
Emit(r) ==
    /\ pc[r] = "emit"
    /\ windows' = [windows EXCEPT ![r] =
           IF window_positions[r] # << >>
           THEN Append(@, [date |-> current_date[r], moonrise |-> moonrise[r],
                           positions |-> window_positions[r]])
           ELSE @]
    /\ Goto(r, "advance")
    /\ UNCHANGED <<call, deploy, event, responses, entry, grid, target_regions, status, calc, observer, allocated, loc,
                   current_date, day, moonrise, hour_offset, window_positions,
                   region_windows, sky>>

\* current_date += timedelta(days=1)
Advance(r) ==
    /\ pc[r] = "advance"
    /\ current_date' = [current_date EXCEPT ![r] = @ + Day]
    /\ day' = [day EXCEPT ![r] = @ + 1]
    /\ Goto(r, "for_day")
    /\ UNCHANGED <<call, deploy, event, responses, entry, grid, target_regions, status, calc, observer, allocated, loc,
                   moonrise, hour_offset, window_positions, windows, region_windows, sky>>

\* The technical factors of the results the run compiles, of a 2.4 m dish in
\* a 35 mph wind, and the recommendations generated from them.
technical_factors(r) ==
    LET wind_loading == calculate_wind_loading(Q(24, 10), Q(35, 1))
        rf_considerations == calculate_rf_considerations(event[r].frequency_mhz, event[r].tree_height_ft, event[r].tree_distance_ft)
        tree_blockage == calculate_tree_blockage(event[r].tree_height_ft, event[r].tree_distance_ft)
    IN  [wind_loading |-> wind_loading,
         rf_considerations |-> rf_considerations,
         tree_blockage |-> tree_blockage,
         recommendations |-> generate_recommendations(tree_blockage, wind_loading, rf_considerations)]

\* opportunities = calc.analyze_eme_opportunities(windows, target_regions),
\* the technical factors and the recommendations, and the run's result: the
\* handler answers 200, or 500 when generate_recommendations raises; the
\* command line prints its report, or lets the exception escape.
Classify(r) ==
    /\ pc[r] = "classify"
    /\ region_windows' = [region_windows EXCEPT ![r] =
                            analyze_eme_opportunities(windows[r], target_regions[r])]
    /\ LET recommendations == technical_factors(r).recommendations
       IN  IF entry[r] = "lambda"
           THEN IF recommendations.exc = "none"
                THEN Respond(r, "200", "results")
                ELSE Respond(r, "500", recommendations.exc)
           ELSE /\ Goto(r, "returned")
                /\ status' = [status EXCEPT ![r] = IF recommendations.exc = "none"
                                                   THEN "exit" ELSE recommendations.exc]
                /\ UNCHANGED responses
    /\ UNCHANGED <<call, deploy, event, entry, grid, target_regions, calc, observer, allocated, loc, scanVars, sky>>

\* 'annual_passes' of a region in the results the run compiles: the handler
\* writes len(ops) * 4, the command line len(ops).
annual_passes(r, ops) == IF entry[r] = "lambda" THEN Len(ops) * 4 ELSE Len(ops)

\* The days the run asks calculate_moonrise_windows for: days=90 in the
\* handler, the default 365 on the command line.
day_count(r) == IF entry[r] = "lambda" THEN 90 ELSE 365

Locate(r) == Start(r) \/ Construct(r) \/ Decode(r) \/ SetupObserver(r)

Scan(r) == ScanStart(r) \/ ForDay(r) \/ Rising(r) \/ ForHour(r) \/ Compute(r)
             \/ Emit(r) \/ Advance(r)

Next == \E r \in Runs : Locate(r) \/ Scan(r) \/ Classify(r)

Spec == Init /\ [][Next]_vars

\* The decoder alone: one run over every grid input, as far as the observer.
InitDecode ==
    /\ Begin({1})
    /\ deploy = NoDeploy
    /\ event = [r \in Runs |-> PlainEvent]
    /\ entry \in [Runs -> {"lambda", "cli"}] /\ entry[2] = "lambda"
    /\ grid \in [Runs -> GridInputs] /\ grid[2] = grid[1]
    /\ sky = [phase |-> 0, alt |-> 0, az |-> 0, polar |-> [d \in 0..(MaxDays - 1) |-> "ok"]]

NextDecode == \E r \in Runs : Locate(r)

SpecDecode == InitDecode /\ [][NextDecode]_vars

\* Two requests handled at the same time, at the same or at different grids.
InitConcurrent ==
    /\ Begin(Runs)
    /\ deploy = NoDeploy
    /\ event = [r \in Runs |-> PlainEvent]
    /\ entry = [r \in Runs |-> "lambda"]
    /\ grid \in [Runs -> {g \in ScanGrids : Len(g) = 6}]
    /\ sky \in {s \in Skies : /\ s.phase = 23 /\ s.alt = 0
                              /\ \A d \in DOMAIN s.polar : s.polar[d] = IF d = 1 THEN "NeverUpError" ELSE "ok"}

SpecConcurrent == InitConcurrent /\ [][Next]_vars

\* The grid codes of the handler's requests: the grids that scan, AA00AA00,
\* AA(U+00B2)0AA and AA00AA(U+00B2)0 (a superscript two for a digit), AA(U+0663)0AA (an
\* Arabic-Indic three), SA00AA (a field past R), AA00A (five characters) and
\* the empty string.
HandlerGrids ==
    ScanGrids \cup {<<65, 65, 48, 48, 65, 65, 48, 48>>, <<65, 65, 178, 48, 65, 65>>,
                    <<65, 65, 48, 48, 65, 65, 178, 48>>, <<65, 65, 1635, 48, 65, 65>>,
                    <<83, 65, 48, 48, 65, 65>>, <<65, 65, 48, 48, 65>>, << >>}

\* One request of every kind to the handler, under a sky with a rising Moon
\* and a day without moonrise.
InitHandler ==
    /\ Begin({1})
    /\ deploy = NoDeploy
    /\ entry = [r \in Runs |-> "lambda"]
    /\ event \in [Runs -> Events] /\ event[2] = event[1]
    /\ grid \in [Runs -> HandlerGrids] /\ grid[2] = grid[1]
    /\ sky \in {s \in Skies : /\ s.phase = 23 /\ s.alt = 0
                              /\ \A d \in DOMAIN s.polar : s.polar[d] = IF d = 1 THEN "NeverUpError" ELSE "ok"}

SpecHandler == InitHandler /\ [][Next]_vars

\* -------------------------------------------- the RF and wind functions
\* Each function applied once, on its own, to arguments from these sets.

\* The tabulated frequencies and four others: one next to a band, one midway
\* between 432 and 902, one between bands, one beyond the last.
FrequencyInputs == DOMAIN BAND_CHARACTERISTICS \cup {145, 667, 1000, 20000}

\* Dish diameters in millimetres: 10 and 20 wavelengths at 10000 MHz, a
\* common dish, and two dishes past 10 and 20 wavelengths at 144 MHz.
DishInputs == {300, 600, 2400, 25000, 45000}

TreeHeights == {0, 5, 30, 60, 80, 120}

TreeDistances == {0 - 10, 0, 40, 100}

RainRates == {0, 5, 25}

PowerInputs == {1, 100, 1500}

\* Elevations in 1/10000 degree: the horizon, 5 degrees, 8.1604 degrees (where
\* a 2.4 m dish at 144 MHz and 100 W has an SNR of 10 dB), just under 10, 10
\* and 15 degrees.
ElevationInputs == {0, 50000, 81604, 99998, 100000, 150000}

\* Dish diameters in tenths of a metre and wind speeds in mph, for the wind
\* load, with a zero and a negative value of each.
DiameterInputs == {n \in {0 - 20, 0, 6, 12, 24, 30, 45} : Smooth(n)}

SpeedInputs == {n \in {0 - 10, 0, 10, 20, 35, 40, 70, 80} : Smooth(n)}

Apply(op, args, result) ==
    /\ call.op = "none"
    /\ call' = [op |-> op, args |-> args, result |-> result]
    /\ UNCHANGED <<runVars, deploy>>

AnalyzeBand ==
    \E f \in FrequencyInputs, dish \in DishInputs, h \in TreeHeights, d \in TreeDistances,
       rain \in RainRates :
        Apply("analyze_frequency_band", <<f, dish, h, d, rain>>,
              analyze_frequency_band(f, dish, h, d, rain))

LinkBudget ==
    \E f \in FrequencyInputs, dish \in DishInputs, tx \in PowerInputs,
       elevation \in ElevationInputs :
        Apply("calculate_link_budget", <<f, dish, tx, elevation>>,
              calculate_link_budget(f, dish, tx, elevation))

RFConsiderations ==
    \E f \in FrequencyInputs, h \in TreeHeights, d \in TreeDistances :
        Apply("calculate_rf_considerations", <<f, h, d>>,
              calculate_rf_considerations(f, h, d))

WindLoading ==
    \E d \in DiameterInputs, v \in SpeedInputs :
        Apply("calculate_wind_loading", <<d, v>>,
              calculate_wind_loading(Q(d, 10), Q(v, 1)))

TreeBlockage ==
    \E h \in TreeHeights, d \in TreeDistances :
        Apply("calculate_tree_blockage", <<h, d>>,
              [exc |-> "none", value |-> calculate_tree_blockage(h, d)])

\* results['recommendations'] = calc.generate_recommendations(results), of
\* the results of a 2.4 m dish in a 35 mph wind
Recommend ==
    \E f \in FrequencyInputs, h \in TreeHeights, d \in TreeDistances :
        Apply("generate_recommendations", <<f, h, d>>,
              generate_recommendations(calculate_tree_blockage(h, d),
                                       calculate_wind_loading(Q(24, 10), Q(35, 1)),
                                       calculate_rf_considerations(f, h, d)))

InitRF ==
    /\ Begin({})
    /\ deploy = NoDeploy
    /\ event = [r \in Runs |-> PlainEvent]
    /\ entry = [r \in Runs |-> "cli"]
    /\ grid = [r \in Runs |-> << >>]
    /\ sky = [phase |-> 0, alt |-> 0, az |-> 0, polar |-> [d \in 0..(MaxDays - 1) |-> "ok"]]

NextRF ==
    \/ AnalyzeBand \/ LinkBudget \/ RFConsiderations \/ WindLoading
    \/ TreeBlockage \/ Recommend

SpecRF == InitRF /\ [][NextRF]_vars

\* ------------------------------------------------------- claims: decoder

\* A digit pair sits at positions 3-4 and 7-8, a letter pair elsewhere.
DigitPosition(i) == ((i + 1) \div 2) % 2 = 0

\* A grid code as the specification accepts it: 4, 6, 8 or 10 characters, A-R
\* in the field pair, 0-9 in the digit pairs, A-X in the subsquare pairs, in
\* either case.
WellFormed(g) ==
    /\ Len(g) \in {4, 6, 8, 10}
    /\ \A i \in 1..Len(g) :
         IF i <= 2 THEN Upper(g[i]) >= 65 /\ Upper(g[i]) <= 82
         ELSE IF DigitPosition(i) THEN g[i] >= 48 /\ g[i] <= 57
         ELSE Upper(g[i]) >= 65 /\ Upper(g[i]) <= 88

\* The index a character stands for at its position.
PairIndex(g, i) == IF DigitPosition(i) THEN g[i] - 48 ELSE Upper(g[i]) - 65

\* The cell size of pair p when the field's is `field`: the previous pair's
\* divided by 10 for a digit pair and by 24 for a letter pair.
RECURSIVE CellSize(_, _)
CellSize(field, p) ==
    IF p = 1 THEN field
    ELSE IF p % 2 = 0 THEN CellSize(field, p - 1) \div 10
    ELSE CellSize(field, p - 1) \div 24

\* origin plus, for the first n pairs, index * cell size; `first` is 1 for
\* the longitude characters and 2 for the latitude characters.
RECURSIVE Accumulated(_, _, _, _, _)
Accumulated(g, origin, field, first, n) ==
    IF n = 0 THEN origin
    ELSE Accumulated(g, origin, field, first, n - 1)
           + PairIndex(g, 2 * (n - 1) + first) * CellSize(field, n)

\* The run has called the decoder.
Decoded(r) == loc[r].exc # "unset"

\* C1: decoding fails, and returns no coordinate, whenever the code has fewer
\* than 4 characters, an odd length, or a character outside its position's
\* alphabet: a run holds a decoded coordinate only for a well-formed code.
C1_MalformedGridRaises ==
    \A r \in Runs : loc[r].exc = "none" => WellFormed(grid[r])

\* C2: for every well-formed code of 4, 6, 8 or 10 characters the decoder
\* returns longitude -180 + 20 * field index and latitude -90 + 10 * field
\* index plus, for each later pair, index * cell size, the cell size being the
\* previous pair's divided by 10 (digit pair) or 24 (letter pair).
C2_DecodeFormula ==
    \A r \in Runs :
        (Decoded(r) /\ WellFormed(grid[r])) =>
            loc[r] = Returned(
                Accumulated(grid[r], 0 - 90 * Scale, 10 * Scale, 2, Len(grid[r]) \div 2),
                Accumulated(grid[r], 0 - 180 * Scale, 20 * Scale, 1, Len(grid[r]) \div 2))

\* A 10-character code with no index 0 has been decoded.
C2_Witness ==
    \E r \in Runs :
        /\ loc[r].exc = "none" /\ WellFormed(grid[r]) /\ Len(grid[r]) = 10
        /\ \A i \in 1..10 : PairIndex(grid[r], i) > 0

\* The south-west corner of the cell that the first n characters of g name.
CellCorner(g, n) ==
    IF n = 2 THEN Returned((Upper(g[2]) - 65) * 10 * Scale - 90 * Scale,
                           (Upper(g[1]) - 65) * 20 * Scale - 180 * Scale)
    ELSE maidenhead_to_latlon(SubSeq(g, 1, n))

\* C3: for every well-formed code the decoded latitude is in [-90, 90], the
\* longitude in [-180, 180], and the coordinate lies inside the cell of every
\* shorter even-length prefix: at or past its corner by less than its size.
C3_DecodeInRangeAndNested ==
    \A r \in Runs :
        (Decoded(r) /\ WellFormed(grid[r])) =>
            /\ loc[r].exc = "none"
            /\ loc[r].lat >= 0 - 90 * Scale /\ loc[r].lat <= 90 * Scale
            /\ loc[r].lon >= 0 - 180 * Scale /\ loc[r].lon <= 180 * Scale
            /\ \A n \in {2, 4, 6, 8} :
                 n < Len(grid[r]) =>
                    LET corner == CellCorner(grid[r], n)
                    IN  /\ corner.exc = "none"
                        /\ corner.lat <= loc[r].lat
                        /\ loc[r].lat < corner.lat + CellSize(10 * Scale, n \div 2)
                        /\ corner.lon <= loc[r].lon
                        /\ loc[r].lon < corner.lon + CellSize(20 * Scale, n \div 2)

\* A 10-character code has been decoded to a point that is off the corner of
\* its 8-character cell, in latitude and in longitude.
C3_Witness ==
    \E r \in Runs :
        /\ loc[r].exc = "none" /\ WellFormed(grid[r]) /\ Len(grid[r]) = 10
        /\ loc[r].lat > CellCorner(grid[r], 8).lat
        /\ loc[r].lon > CellCorner(grid[r], 8).lon
        /\ CellCorner(grid[r], 8).lat > CellCorner(grid[r], 6).lat
        /\ CellCorner(grid[r], 6).lon > CellCorner(grid[r], 4).lon

\* C4: a well-formed 4-character code is accepted, not rejected: once past
\* its first statement the run has not answered it with an error.
C4_ShortGridAccepted ==
    \A r \in Runs :
        (WellFormed(grid[r]) /\ Len(grid[r]) = 4 /\ pc[r] \notin {"idle", "start"}) =>
            status[r] \in {"none", "200", "exit"}

\* --------------------------------------------------------- claims: scan

\* The scan of the run has returned its windows.
ScanDone(r) == pc[r] = "classify" \/ (pc[r] = "returned" /\ status[r] \in {"200", "exit"})

\* The run's observer at instant t, as an explicit (observer, instant) pair.
At(r, t) == [lat |-> loc[r].lat, lon |-> loc[r].lon, elevation |-> 0, date |-> t]

\* The oracle's sample h hours after a moonrise at m.
Sample(r, m, h) ==
    LET moon == compute(sky, At(r, m + h))
    IN  [time |-> m + h, azimuth |-> moon.az, elevation |-> moon.alt, hour_after_rise |-> h]

\* The samples at m + 0 .. m + 6 hours whose elevation is above 5 degrees.
Qualifying(r, m) ==
    SelectSeq([i \in 1..7 |-> Sample(r, m, i - 1)], LAMBDA p : p.elevation > 5)

\* The windows of day d alone, none or one, from the oracle queried for that
\* day and nothing else.
DayWindows(r, d) ==
    LET rise == next_rising(sky, At(r, d * 24))
        samples == Qualifying(r, rise.at)
    IN  IF rise.exc # "none" \/ samples = << >> THEN << >>
        ELSE << [date |-> d * 24, moonrise |-> rise.at, positions |-> samples] >>

\* The windows of the days of a sequence, in the sequence's order.
RECURSIVE WindowsOver(_, _)
WindowsOver(r, ds) ==
    IF ds = << >> THEN << >> ELSE DayWindows(r, Head(ds)) \o WindowsOver(r, Tail(ds))

ScannedDays == [i \in 1..MaxDays |-> i - 1]

\* The oracle signals NeverUp or AlwaysUp on day d.
PolarDay(d) == d \in DOMAIN sky.polar /\ sky.polar[d] # "ok"

\* C5: a day for which the oracle signals that the Moon never rises or is
\* always up contributes no window and raises no error, and the scan returns
\* what it returns for the other days alone.
C5_PolarDaySkipped ==
    \A r \in Runs :
        /\ \A i \in 1..Len(windows[r]) : ~PolarDay(windows[r][i].date \div 24)
        /\ status[r] \notin {"NeverUpError", "AlwaysUpError", "500"}
        /\ ScanDone(r) =>
              windows[r] = WindowsOver(r, SelectSeq(ScannedDays, LAMBDA d : ~PolarDay(d)))

\* A scan has returned a window of a day that follows a polar day.
C5_Witness ==
    \E r \in Runs :
        /\ ScanDone(r)
        /\ \E i \in 1..Len(windows[r]) :
              \E d \in 0..(MaxDays - 1) : PolarDay(d) /\ d * 24 < windows[r][i].date

\* The Moon rises on day d: the oracle gives a moonrise within the day.
MoonRisesOn(r, d) ==
    LET rise == next_rising(sky, At(r, d * 24))
    IN  rise.exc = "none" /\ rise.at < (d + 1) * 24

\* C6: the Moon is sampled at moonrise + 0, 1, ..., 6 hours; a window is
\* emitted for a day with a moonrise if and only if some sample is above 5
\* degrees, and a window holds exactly the samples above 5 degrees, in
\* increasing hour order, each tagged with its hour.
C6_WindowHoldsQualifyingSamples ==
    \A r \in Runs :
        /\ \A i \in 1..Len(windows[r]) :
              /\ windows[r][i].positions = Qualifying(r, windows[r][i].moonrise)
              /\ windows[r][i].positions # << >>
        /\ pc[r] = "compute" =>
              /\ hour_offset[r] \in 0..6
              /\ observer[calc[r]].date = moonrise[r] + hour_offset[r]
        /\ pc[r] = "emit" => hour_offset[r] = 7
        /\ (pc[r] = "advance" /\ MoonRisesOn(r, day[r])) =>
              ((\E i \in 1..Len(windows[r]) : windows[r][i].date = current_date[r])
                 <=> (\E h \in 0..6 : compute(sky, At(r, moonrise[r] + h)).alt > 5))

\* A scan has returned a window that holds some of its night's seven samples
\* but not all, and has passed a day with a moonrise and no window.
C6_Witness ==
    \E r \in Runs :
        /\ ScanDone(r)
        /\ \E i \in 1..Len(windows[r]) :
              Len(windows[r][i].positions) \in 1..6
        /\ \E d \in 0..(MaxDays - 1) :
              MoonRisesOn(r, d) /\ \A i \in 1..Len(windows[r]) : windows[r][i].date # d * 24

\* C7: the moonrise of an emitted window falls on the window's own date, and
\* no moonrise is the moonrise of two windows.
C7_MoonriseOnWindowDate ==
    \A r \in Runs :
        /\ \A i \in 1..Len(windows[r]) :
              /\ windows[r][i].date <= windows[r][i].moonrise
              /\ windows[r][i].moonrise < windows[r][i].date + 24
        /\ \A i, j \in 1..Len(windows[r]) :
              i # j => windows[r][i].moonrise # windows[r][j].moonrise

\* The orders in which the days can be evaluated.
Orders == {o \in [1..MaxDays -> 0..(MaxDays - 1)] : \A i, j \in 1..MaxDays : i # j => o[i] # o[j]}

\* w put in its place, by date, in the date-sorted sequence ws.
RECURSIVE Insert(_, _)
Insert(w, ws) ==
    IF ws = << >> THEN <<w>>
    ELSE IF w.date < Head(ws).date THEN <<w>> \o ws
    ELSE <<Head(ws)>> \o Insert(w, Tail(ws))

RECURSIVE SortByDate(_)
SortByDate(ws) == IF ws = << >> THEN << >> ELSE Insert(Head(ws), SortByDate(Tail(ws)))

\* The windows of each of the first n days, evaluated apart: entry d + 1 holds
\* those of day d.
RECURSIVE DayTable(_, _)
DayTable(r, n) == IF n = 0 THEN << >> ELSE Append(DayTable(r, n - 1), DayWindows(r, n - 1))

\* The entries of the table taken in the order o, from its i-th day on.
RECURSIVE InOrder(_, _, _)
InOrder(table, o, i) ==
    IF i > Len(o) THEN << >> ELSE table[o[i] + 1] \o InOrder(table, o, i + 1)

\* C8: the window of a day depends on the location and that day only: the
\* days evaluated in any order and then sorted by date give the windows of
\* the sequential scan, which are in ascending date order.
C8_DaysIndependent ==
    \A r \in Runs :
        /\ \A i, j \in 1..Len(windows[r]) : i < j => windows[r][i].date < windows[r][j].date
        /\ ScanDone(r) =>
              LET table == DayTable(r, MaxDays)
              IN  \A o \in Orders : SortByDate(InOrder(table, o, 1)) = windows[r]

\* A scan has returned windows of two days that differ in more than the date.
C8_Witness ==
    \E r \in Runs :
        /\ ScanDone(r)
        /\ \E i, j \in 1..Len(windows[r]) :
              /\ i < j
              /\ Len(windows[r][i].positions) # Len(windows[r][j].positions)

\* C9: the observer is owned by one run: two runs never hold the same
\* Observer, each run's oracle queries read the location and the date that
\* the run itself wrote, and each run returns the windows it returns alone.
C9_ObserverOwnedByRun ==
    /\ \A r, q \in Runs : (r # q /\ calc[r] # 0 /\ calc[q] # 0) => calc[r] # calc[q]
    /\ \A r \in Runs :
          /\ pc[r] = "rising" => observer[calc[r]] = At(r, current_date[r])
          /\ pc[r] = "compute" => observer[calc[r]] = At(r, moonrise[r] + hour_offset[r])
          /\ ScanDone(r) => windows[r] = WindowsOver(r, ScannedDays)

\* One run has returned its windows while the other, at another location, is
\* between writing the observer's date and reading the Moon's position.
C9_Witness ==
    /\ ScanDone(1) /\ windows[1] # << >>
    /\ pc[2] = "compute" /\ loc[2] # loc[1]
    /\ windows[2] # << >>

\* ---------------------------------------------------- claims: classifier

\* The run has classified its windows.
Classified(r) == pc[r] = "returned" /\ status[r] \in {"200", "exit"}

\* The region's list holds the sample pos of window w.
Listed(r, region, w, pos) ==
    \E k \in 1..Len(region_windows[r][region]) :
        LET op == region_windows[r][region][k]
        IN  /\ op.date = w.date /\ op.moonrise = w.moonrise
            /\ op.operating_time = pos.time /\ op.hours_after_rise = pos.hour_after_rise
            /\ op.azimuth = pos.azimuth /\ op.elevation = pos.elevation

\* C10: a sample of a window is in a requested region's list if and only if
\* its elevation is above 10 degrees and its azimuth is within the region's
\* range, ends included; regions that overlap each list the sample.
C10_ClassifiedByElevationAndAzimuth ==
    \A r \in Runs :
        Classified(r) =>
            \A region \in DOMAIN region_windows[r] \cap DOMAIN TARGET_REGIONS :
                /\ \A i \in 1..Len(windows[r]) :
                      \A j \in 1..Len(windows[r][i].positions) :
                          LET pos == windows[r][i].positions[j]
                          IN  Listed(r, region, windows[r][i], pos)
                                <=> /\ pos.elevation > 10
                                    /\ TARGET_REGIONS[region][1] <= pos.azimuth
                                    /\ pos.azimuth <= TARGET_REGIONS[region][2]
                /\ \A k \in 1..Len(region_windows[r][region]) :
                      \E i \in 1..Len(windows[r]) :
                          \E j \in 1..Len(windows[r][i].positions) :
                              /\ region_windows[r][region][k].date = windows[r][i].date
                              /\ region_windows[r][region][k].hours_after_rise
                                    = windows[r][i].positions[j].hour_after_rise

\* One sample is listed for the Caribbean and for South America, and a sample
\* at 10 degrees within a requested region's range is listed nowhere.
C10_Witness ==
    \E r \in Runs :
        /\ Classified(r)
        /\ {"Caribbean", "South America"} \subseteq DOMAIN region_windows[r]
        /\ \E i \in 1..Len(windows[r]) :
              \E j \in 1..Len(windows[r][i].positions) :
                  /\ Listed(r, "Caribbean", windows[r][i], windows[r][i].positions[j])
                  /\ Listed(r, "South America", windows[r][i], windows[r][i].positions[j])
        /\ \E i \in 1..Len(windows[r]) :
              \E j \in 1..Len(windows[r][i].positions) :
                  /\ windows[r][i].positions[j].elevation = 10
                  /\ windows[r][i].positions[j].azimuth \in 120..180

\* The names of a request that the region table holds, in the request's order.
KnownRegions(list) == SelectSeq(list, LAMBDA name : name \in DOMAIN TARGET_REGIONS)

\* C11: a requested region name that TARGET_REGIONS does not hold raises no
\* error (the run that decoded its grid ends with 200), its list stays empty,
\* and every other requested region's list is what the classifier gives for
\* the request without the unknown names.
C11_UnknownRegionIgnored ==
    \A r \in Runs :
        (/\ pc[r] = "returned" /\ loc[r].exc = "none" /\ ~target_regions[r].none
         /\ \E i \in 1..Len(target_regions[r].list) :
               target_regions[r].list[i] \notin DOMAIN TARGET_REGIONS)
        => /\ status[r] = "200"
           /\ \A i \in 1..Len(target_regions[r].list) :
                 LET region == target_regions[r].list[i]
                 IN  /\ region \in DOMAIN region_windows[r]
                     /\ region \notin DOMAIN TARGET_REGIONS => region_windows[r][region] = << >>
                     /\ region \in DOMAIN TARGET_REGIONS =>
                           region_windows[r][region]
                             = analyze_eme_opportunities(
                                   windows[r], Some(KnownRegions(target_regions[r].list)))[region]

\* A run asked for Atlantis next to Asia and Oceania, its scan gave samples
\* above 10 degrees, and a known region of the request lists some.
C11_Witness ==
    \E r \in Runs :
        /\ Classified(r)
        /\ ~target_regions[r].none
        /\ "Atlantis" \in DOMAIN region_windows[r]
        /\ \E region \in DOMAIN region_windows[r] : region_windows[r][region] # << >>
        /\ \E i \in 1..Len(windows[r]) :
              \E j \in 1..Len(windows[r][i].positions) :
                  windows[r][i].positions[j].elevation > 10

C13_AnnualPassesLinearScale ==
    \A r \in Runs :
        Classified(r) =>
            \A region \in DOMAIN region_windows[r] :
                annual_passes(r, region_windows[r][region]) * day_count(r)
                    = Len(region_windows[r][region]) * 365

\* ---------------------------------------------------- claims: RF analysis

\* The function applied, with a result and not an exception.
Applied(op) == call.op = op /\ call.result.exc = "none"

\* A tabulated frequency at the least distance from f.
Nearest(f) ==
    CHOOSE k \in DOMAIN BANDS : \A other \in DOMAIN BANDS : Abs(k - f) <= Abs(other - f)

\* C14: band analysis, as it is called by default, of a frequency the band
\* table does not hold raises no error; it answers with the profile of the
\* nearest tabulated frequency and the wavelength c/f.
C14_UntabulatedFallsBack ==
    (/\ call.op \in {"analyze_frequency_band", "calculate_rf_considerations"}
     /\ call.args[1] \notin DOMAIN BAND_CHARACTERISTICS)
    => /\ call.result.exc = "none"
       /\ call.op = "analyze_frequency_band" =>
             /\ call.result.min_elevation_deg
                  = BAND_CHARACTERISTICS[Nearest(call.args[1])].min_elevation_deg
             /\ call.result.wavelength_cm = 299792 \div call.args[1]
       /\ call.op = "calculate_rf_considerations" =>
             /\ Abs(closest_freq(call.args[1]) - call.args[1])
                  = Abs(Nearest(call.args[1]) - call.args[1])
             /\ call.result.band_name = BANDS[closest_freq(call.args[1])].name
             /\ call.result.tree_sensitivity = BANDS[closest_freq(call.args[1])].tree_sensitivity
             /\ call.result.wavelength_cm = 299792458 \div call.args[1]

\* C15: the tree loss is at most 40 dB for every supported frequency, tree
\* height and tree distance, and is 0 when the tree height is 0.
C15_TreeLossCapped ==
    /\ Applied("analyze_frequency_band") =>
          /\ call.result.tree_loss_db <= 40 * 10000
          /\ call.args[3] = 0 => call.result.tree_loss_db = 0
    /\ Applied("calculate_rf_considerations") =>
          /\ call.result.estimated_tree_loss_db <= 40 * 10000
          /\ call.args[2] = 0 => call.result.estimated_tree_loss_db = 0

\* The path through the trees alone would lose more than 40 dB, and the
\* analysis reports 40.
C15_Witness ==
    /\ Applied("analyze_frequency_band")
    /\ call.args[3] > 0 /\ call.args[4] > 0
    /\ BAND_CHARACTERISTICS[call.args[1]].tree_attenuation_db_per_m
         * path_through_trees_m(call.args[3], call.args[4]) > 40 * 10000
    /\ call.result.tree_loss_db = 40 * 10000

dishPenalty(dish, wavelength) ==
    IF dish < 10 * wavelength THEN 30 ELSE IF dish < 20 * wavelength THEN 15 ELSE 0

treePenalty(loss) ==
    IF loss > 20 * 10000 THEN 40 ELSE IF loss > 10 * 10000 THEN 20
    ELSE IF loss > 5 * 10000 THEN 10 ELSE 0

freqAdj(f) == IF f >= 3456 THEN 0 - 10 ELSE IF f <= 432 THEN 10 ELSE 0

\* C17: the suitability score is within 0..100 and is
\* 100 - dishPenalty - treePenalty + freqAdj brought into 0..100.
C17_SuitabilityScore ==
    Applied("analyze_frequency_band")
    => LET raw == 100 - dishPenalty(call.args[2], call.result.wavelength_cm)
                      - treePenalty(call.result.tree_loss_db) + freqAdj(call.args[1])
       IN  /\ call.result.suitability_score \in 0..100
           /\ call.result.suitability_score
                = (IF raw < 0 THEN 0 ELSE IF raw > 100 THEN 100 ELSE raw)

\* A small dish behind trees that lose more than 20 dB on a microwave band:
\* 100 - 30 - 40 - 10.
C17_Witness ==
    /\ Applied("analyze_frequency_band")
    /\ call.args[1] >= 3456
    /\ call.args[2] < 10 * call.result.wavelength_cm
    /\ call.result.tree_loss_db > 20 * 10000
    /\ call.result.suitability_score = 20

\* C18: at 144 MHz with a tree height of 0, band analysis gives a tree loss
\* of 0, a rain fade of 0 and a suitability score of 100.
C18_VhfNoTrees ==
    (Applied("analyze_frequency_band") /\ call.args[1] = 144 /\ call.args[3] = 0)
    => /\ call.result.tree_loss_db = 0
       /\ call.result.rain_fade_db = 0
       /\ call.result.suitability_score = 100

\* C19: in the link budget the elevation loss is (10 - elevation) * 0.5 below
\* 10 degrees and 0 from 10 degrees on, the link margin is snr_db - 10, and
\* feasible is true exactly when snr_db is above 10, that is when the margin
\* is above 0.
C19_LinkBudget ==
    Applied("calculate_link_budget")
    => /\ call.result.elevation_loss_db
            = (IF call.args[4] >= 100000 THEN 0 ELSE (100000 - call.args[4]) \div 2)
       /\ call.result.elevation_loss_db >= 0
       /\ call.result.link_margin_db = call.result.snr_db - 100000
       /\ call.result.feasible <=> call.result.snr_db > 100000
       /\ call.result.feasible <=> call.result.link_margin_db > 0

\* Below 10 degrees the elevation loss brings the SNR to 10 dB exactly: the
\* margin is 0 and the link is not feasible.
C19_Witness ==
    /\ Applied("calculate_link_budget")
    /\ call.result.elevation_loss_db > 0
    /\ call.result.snr_db = 100000
    /\ call.result.link_margin_db = 0
    /\ ~call.result.feasible

\* ---------------------------------------------------- claims: wind loading

\* C20: for a diameter d and a speed v, force_lbf(d, 2v) = 4 force_lbf(d, v)
\* and force_lbf(k d, v) = k^2 force_lbf(d, v), where
\* force_n = 0.5 * 1.225 * (v * 0.44704)^2 * pi * (d / 2)^2 and
\* force_lbf = force_n / 4.448.
C20_WindForceQuadratic ==
    Applied("calculate_wind_loading")
    => LET d == Q(call.args[1], 10)
           v == Q(call.args[2], 1)
           force_n == Times(Times(Times(Q(1, 2), Q(1225, 1000)),
                                  Squared(Times(v, Q(44704, 100000)))),
                            Times(pi, Squared(Over(d, Q(2, 1)))))
       IN  /\ call.result.force_n = force_n
           /\ call.result.force_lbf = Over(force_n, Q(4448, 1000))
           /\ calculate_wind_loading(d, Times(Q(2, 1), v)).force_lbf
                = Times(Q(4, 1), call.result.force_lbf)
           /\ \A k \in 2..3 :
                 calculate_wind_loading(Times(Q(k, 1), d), v).force_lbf
                   = Times(Q(k * k, 1), call.result.force_lbf)

\* The load of a 2.4 m dish at 35 mph, whose double, 70 mph, is a speed the
\* function is applied to as well.
C20_Witness ==
    /\ Applied("calculate_wind_loading")
    /\ call.args = <<24, 35>>
    /\ 2 * call.args[2] \in SpeedInputs
    /\ call.result.force_lbf # call.result.force_n

\* ------------------------------------------------- deployment handler
\* deploy.lambda_handler, invoked once by CloudFormation. `environ` are the
\* names os.environ holds, `has_url` is whether the event holds
\* 'ResponseURL', `bucket` are the keys of the S3 bucket, `uploaded` the
\* files this invocation has put there, `sent` the responses that have
\* reached CloudFormation and `error` the exception being handled.

\* The keys of web_files, in the order of the dict
web_files == <<"index.html", "style.css", "script.js", "error.html">>

\* What becomes of a request to a remote service: it is served and returns,
\* it raises before it is served, or it is served and its reply is lost, so
\* that the call raises.
Outcomes == {"served", "refused", "reply_lost"}

InitDeploy ==
    /\ Begin({})
    /\ event = [r \in Runs |-> PlainEvent]
    /\ entry = [r \in Runs |-> "cli"]
    /\ grid = [r \in Runs |-> << >>]
    /\ sky = [phase |-> 0, alt |-> 0, az |-> 0, polar |-> [d \in 0..(MaxDays - 1) |-> "ok"]]
    /\ \E environ \in SUBSET {"BUCKET_NAME", "API_ENDPOINT"}, has_url \in BOOLEAN,
          bucket \in {{}, {"index.html", "logo.png"}} :
            deploy = [NoDeploy EXCEPT !.pc = "start", !.environ = environ,
                                      !.has_url = has_url, !.bucket = bucket]

\* The handler goes on to the `except Exception` clause with exception e
Except(e) == [deploy EXCEPT !.pc = "except", !.error = e]

\* bucket_name = os.environ['BUCKET_NAME'];
\* api_endpoint = os.environ['API_ENDPOINT']
ReadEnviron ==
    /\ deploy.pc = "start"
    /\ deploy' = IF {"BUCKET_NAME", "API_ENDPOINT"} \subseteq deploy.environ
                 THEN [deploy EXCEPT !.pc = "client"]
                 ELSE Except("KeyError")
    /\ UNCHANGED <<runVars, call>>

\* s3 = boto3.client('s3'), and the contents of web_files
CreateClient ==
    /\ deploy.pc = "client"
    /\ \E ok \in BOOLEAN :
          deploy' = IF ok THEN [deploy EXCEPT !.pc = "upload"] ELSE Except("NoRegionError")
    /\ UNCHANGED <<runVars, call>>

\* One turn of the loop over web_files: s3.put_object(..., Key=filename, ...)
PutObject ==
    /\ deploy.pc = "upload"
    /\ LET filename == web_files[Len(deploy.uploaded) + 1]
       IN  \E outcome \in Outcomes :
             deploy' =
               IF outcome = "served"
               THEN [deploy EXCEPT !.uploaded = Append(@, filename),
                                   !.bucket = @ \cup {filename},
                                   !.pc = IF Len(deploy.uploaded) + 1 = Len(web_files)
                                          THEN "success" ELSE "upload"]
               ELSE IF outcome = "reply_lost"
               THEN [Except("ClientError") EXCEPT !.bucket = @ \cup {filename}]
               ELSE Except("ClientError")
    /\ UNCHANGED <<runVars, call>>

\* deploy.send_response: event['ResponseURL'] raises KeyError for an event
\* without it; otherwise http.request('PUT', ...) delivers the response and
\* returns, or raises, the response delivered or not. `next` is where the
\* handler goes on when send_response returns, `raised` when it raises.
send_response(response_status, outcome, next, raised) ==
    IF ~deploy.has_url THEN [deploy EXCEPT !.pc = raised, !.error = "KeyError"]
    ELSE IF outcome = "served"
    THEN [deploy EXCEPT !.pc = next, !.sent = Append(@, response_status)]
    ELSE IF outcome = "reply_lost"
    THEN [deploy EXCEPT !.pc = raised, !.error = "MaxRetryError",
                        !.sent = Append(@, response_status)]
    ELSE [deploy EXCEPT !.pc = raised, !.error = "MaxRetryError"]

\* send_response(event, context, 'SUCCESS', ...), inside the try
SendSuccess ==
    /\ deploy.pc = "success"
    /\ \E outcome \in Outcomes :
          deploy' = send_response("SUCCESS", outcome, "returned", "except")
    /\ UNCHANGED <<runVars, call>>

\* except Exception: send_response(event, context, 'FAILED', ...); an
\* exception it raises escapes the handler
SendFailed ==
    /\ deploy.pc = "except"
    /\ \E outcome \in Outcomes :
          deploy' = send_response("FAILED", outcome, "returned", "raised")
    /\ UNCHANGED <<runVars, call>>

NextDeploy == ReadEnviron \/ CreateClient \/ PutObject \/ SendSuccess \/ SendFailed

SpecDeploy == InitDeploy /\ [][NextDeploy]_vars

\* ------------------------------------------------ claims: recommendations

\* The messages of a kind among the recommendations, in their order.
Messages(result, kind) ==
    SelectSeq(result.reasoning \o result.technical_requirements, LAMBDA m : m.kind = kind)

\* C21: for every blockage, wind and RF result, the blockage result of a
\* tree distance <= 0 included, generate_recommendations raises nothing and
\* gives a tree-clearance warning naming the height and the distance exactly
\* when the blockage angle is above 30 degrees, one foundation requirement
\* for force_lbf, and a line-of-sight note naming the band exactly when
\* tree_sensitivity is high, very_high or extreme, the warning before the
\* note.
C21_RecommendationRules ==
    call.op = "generate_recommendations"
    => LET blockage == calculate_tree_blockage(call.args[2], call.args[3])
           wind == calculate_wind_loading(Q(24, 10), Q(35, 1))
           rf == calculate_rf_considerations(call.args[1], call.args[2], call.args[3])
           warnings == Messages(call.result, "tree_clearance")
           notes == Messages(call.result, "line_of_sight")
       IN  /\ call.result.exc = "none"
           /\ Len(warnings) = (IF blockage.blockage_angle_deg > 300000 THEN 1 ELSE 0)
           /\ \A i \in 1..Len(warnings) :
                 /\ warnings[i].tree_height_ft = call.args[2]
                 /\ warnings[i].tree_distance_ft = call.args[3]
           /\ Messages(call.result, "foundation")
                = << [kind |-> "foundation", force_lbf |-> wind.force_lbf] >>
           /\ Len(notes) = (IF rf.tree_sensitivity \in {"high", "very_high", "extreme"}
                            THEN 1 ELSE 0)
           /\ \A i \in 1..Len(notes) : notes[i].band_name = rf.band_name
           /\ (warnings # << >> /\ notes # << >>) =>
                 call.result.reasoning[1].kind = "tree_clearance"

\* ------------------------------------------- claims: numeric domain errors

\* C22: a dish diameter <= 0 or a wind speed <= 0 makes the wind load fail,
\* and a tree distance <= 0 makes the tree blockage and the tree loss fail:
\* the call raises an error and returns no result.
C22_DomainViolationsRaise ==
    /\ (call.op = "calculate_wind_loading" /\ (call.args[1] <= 0 \/ call.args[2] <= 0))
          => call.result.exc # "none"
    /\ (call.op = "calculate_tree_blockage" /\ call.args[2] <= 0)
          => call.result.exc # "none"
    /\ (/\ call.op = "analyze_frequency_band"
        /\ call.args[1] \in DOMAIN BAND_CHARACTERISTICS
        /\ call.args[4] <= 0)
          => call.result.exc # "none"

\* ------------------------------------------------- claims: request handler

\* The handler of run r has returned.
Answered(r) == entry[r] = "lambda" /\ pc[r] = "returned"

\* The body of the run's event is parsed and holds every required field,
\* each of a value its conversion takes.
BodyRead(r) ==
    /\ event[r].httpMethod # "OPTIONS" /\ event[r].body = "object"
    /\ event[r].fields = required_fields /\ event[r].convertible

\* The run has created no calculator, decoded no grid and scanned nothing.
NothingComputed(r) ==
    /\ calc[r] = 0 /\ allocated = 0 /\ loc[r].exc = "unset"
    /\ windows[r] = << >> /\ region_windows[r] = << >>

\* A handler that has returned has given one response, of status 200, 400 or
\* 500 and with the CORS headers; one that has not has given none, and no
\* exception has escaped it.
HandlerTotal(r) ==
    /\ status[r] \in {"none", "200", "400", "500"}
    /\ IF pc[r] = "returned"
       THEN /\ Len(responses[r]) = 1
            /\ responses[r][1].statusCode = status[r]
            /\ status[r] # "none"
            /\ responses[r][1].headers.Access_Control_Allow_Origin = "*"
            /\ responses[r][1].headers.Access_Control_Allow_Headers = "Content-Type"
            /\ responses[r][1].headers.Access_Control_Allow_Methods = "OPTIONS,POST,GET"
       ELSE responses[r] = << >> /\ status[r] = "none"

\* OPTIONS is answered 200 whatever the body is.
PreflightAnswered(r) ==
    (Answered(r) /\ event[r].httpMethod = "OPTIONS")
        => status[r] = "200" /\ NothingComputed(r)

\* A parsed body that lacks a required field is answered 400, before any
\* decoding or scanning.
MissingFieldRefused(r) ==
    (/\ Answered(r) /\ event[r].httpMethod # "OPTIONS" /\ event[r].body = "object"
     /\ event[r].fields # required_fields)
        => status[r] = "400" /\ NothingComputed(r)

\* A grid that fails the validation is answered 400 before the calculator is
\* created.
InvalidGridRefused(r) ==
    (Answered(r) /\ BodyRead(r) /\ ~validate_grid_square(upper(grid[r])))
        => status[r] = "400" /\ NothingComputed(r)

\* A grid that passes the validation is decoded without an exception.
ValidatedGridDecodes(r) ==
    (/\ entry[r] = "lambda" /\ BodyRead(r) /\ validate_grid_square(upper(grid[r]))
     /\ loc[r].exc # "unset")
        => loc[r].exc = "none"

\* The clauses about the handler's own control flow, of every run
EveryHandlerTotal == \A r \in Runs : entry[r] = "lambda" => HandlerTotal(r)

EveryPreflightAnswered == \A r \in Runs : PreflightAnswered(r)

EveryMissingFieldRefused == \A r \in Runs : MissingFieldRefused(r)

EveryInvalidGridRefused == \A r \in Runs : InvalidGridRefused(r)

\* C23: the handler gives every event one response, of status 200, 400 or
\* 500 and with the CORS headers, and lets no exception escape; it answers
\* OPTIONS with 200 without reading the body, a body that lacks a required
\* field with 400 before decoding or scanning, a grid that fails the
\* validation with 400 before the calculator is created; and every grid that
\* passes validate_grid_square is decoded by maidenhead_to_latlon without an
\* exception.
C23_HandlerTotalAndGridsDecode ==
    \A r \in Runs :
        entry[r] = "lambda" =>
            /\ HandlerTotal(r)
            /\ PreflightAnswered(r)
            /\ MissingFieldRefused(r)
            /\ InvalidGridRefused(r)
            /\ ValidatedGridDecodes(r)

\* ---------------------------------------------- claims: deployment handler

\* The invocation has ended: the handler has returned, or an exception has
\* escaped it.
Ended == deploy.pc \in {"returned", "raised"}

Files(seq) == {seq[i] : i \in 1..Len(seq)}

\* Exactly one response once the invocation has ended, and never more than
\* one.
OneResponse == Len(deploy.sent) <= 1 /\ (Ended => Len(deploy.sent) = 1)

\* SUCCESS is sent only after the four files are uploaded and in the bucket.
SuccessAfterUploads ==
    "SUCCESS" \in Files(deploy.sent)
        => deploy.uploaded = web_files /\ Files(web_files) \subseteq deploy.bucket

\* The files uploaded stay in the bucket, whatever follows.
UploadsKept == Files(deploy.uploaded) \subseteq deploy.bucket

\* C24: every invocation of the deployment handler sends exactly one
\* response to CloudFormation: SUCCESS only after the four web files are
\* uploaded, FAILED when the environment lacks a name or an upload fails, the
\* files already uploaded left in the bucket, and never both.
C24_OneCloudFormationResponse ==
    /\ OneResponse
    /\ SuccessAfterUploads
    /\ UploadsKept
    /\ (Ended /\ deploy.uploaded # web_files) => deploy.sent = <<"FAILED">>
    /\ ~({"SUCCESS", "FAILED"} \subseteq Files(deploy.sent))

=============================================================================
